---- MODULE Spec2Model ----
(***************************************************************************)
(* Model of item_39_queue.py: producer/consumer pipelines built on         *)
(* queue.Queue.  One behaviour runs one of the example drivers:            *)
(*   "one"    example_one    three polling Workers over MyQueues           *)
(*   "three"  example_three  producer and consumer() over Queue(1)         *)
(*   "four"   example_four   producer and consumer_four() over in_queue    *)
(*   "five"   example_five   three StoppableWorkers over ClosableQueues    *)
(* The main thread and the two consumer functions are straight-line code   *)
(* and are modelled as scripts of queue operations; the workers are loops  *)
(* and have their own actions.                                             *)
(***************************************************************************)
EXTENDS Integers, Sequences, FiniteSets, TLC

\* Largest number of items the driver of example_five feeds (range(1000) in
\* the source, line 191).
MaxItems == 3

\* Largest number of polls of an empty queue modelled per polling Worker (the
\* source polls without end).
MaxPolls == 2

\* ClosableQueue.SENTINEL: an object distinct from every fed item.  Items are
\* the objects 1, 2, ... in order of creation.
SENTINEL == 0

Examples == {"one", "three", "four", "five"}

ClosableQueues == {"download_queue", "resize_queue", "upload_queue", "done_queue"}

Queues == ClosableQueues \cup {"queue", "in_queue"}

\* The StoppableWorker threads of example_five, in list order.
Workers == {"download", "resize", "upload"}

\* The MyQueue instances of example_one (same local names as the
\* ClosableQueues of example_five; one behaviour runs only one of the two).
MyQueues == {"download_queue", "resize_queue", "upload_queue", "done_queue"}

\* The polling Worker threads of example_one, in list order.
PollWorkers == {"download", "resize", "upload"}

\* Threads that run straight-line code.
Scripted == {"main", "consumer"}

VARIABLES
    example,      \* the driver function that runs
    n,            \* number of items example_five feeds
    pc,           \* pc[t]: index of the next statement of scripted thread t
    started,      \* threads on which start() has been called
    buf,          \* buf[q]: the deque of queue q, head first
    unfinished,   \* unfinished[q]: Queue.unfinished_tasks of q
    wpc,          \* wpc[w]: position of worker w inside run()/__iter__
    hand,         \* hand[w]: <<item>> dequeued by w and not yet marked done
    result,       \* result[w]: <<func(item)>> not yet put
    nobj,         \* number of object() instances created so far
    called,       \* history: <<w, arg>> for every call of w's transform
    out,          \* lines printed so far
    qlog,         \* history: completed put/get operations on `queue`
    puts,         \* history: puts[q] is the sequence of entries put into q
    gets,         \* history: gets[q] is the sequence of entries got from q
    items,        \* items[q]: MyQueue.items of q, head first
    polled_count, \* polled_count[w] of polling Worker w
    work_done,    \* work_done[w] of polling Worker w
    ppc,          \* ppc[w]: position of polling Worker w inside run()
    pitem,        \* pitem[w]: <<item>> the polling Worker w is working on
    processed,    \* local `processed` of example_one, << >> until assigned
    polled        \* running total of sum(t.polled_count for t in threads)

\* State of the polling variant.
pollVars == <<items, polled_count, work_done, ppc, pitem, processed, polled>>

vars == <<example, n, pc, started, buf, unfinished, wpc, hand, result,
          nobj, called, out, qlog, puts, gets, pollVars>>

----------------------------------------------------------------------------
\* Queue construction: Queue(1) has maxsize 1; Queue() and ClosableQueue()
\* have maxsize 0, which queue.Queue treats as unbounded.

\* Mutant: every queue is built as Queue() with no bound.
MaxSize_Unbounded(q) == 0

\* Mutant: every queue is built with a buffer size of 1.
MaxSize_One(q) == 1

MaxSize(q) == IF q = "queue" THEN 1 ELSE 0

\* The transforms download, resize, upload.
Func(w, item) == item

InQueue(w) ==
    CASE w = "download" -> "download_queue"
      [] w = "resize"   -> "resize_queue"
      [] w = "upload"   -> "upload_queue"

OutQueue(w) ==
    CASE w = "download" -> "resize_queue"
      [] w = "resize"   -> "upload_queue"
      [] w = "upload"   -> "done_queue"

Repeat(k, s) == [i \in 1..k |-> s]

\* Body of example_one feeding k items.
ExampleOne(k) ==
    << <<"start", "download">>, <<"start", "resize">>, <<"start", "upload">> >>
    \o Repeat(k, <<"myput", "download_queue">>)
    \o << <<"wait", "done_queue">>,
          <<"len", "done_queue">>,
          <<"polled", "download">>, <<"polled", "resize">>,
          <<"polled", "upload">>,
          <<"print", "Processed">> >>

\* Body of example_three.
ExampleThree ==
    << <<"start", "consumer">>,
       <<"put", "queue">>, <<"print", "Producer put 1">>,
       <<"put", "queue">>, <<"print", "Producer put 2">>,
       <<"tjoin", "consumer">>, <<"print", "Producer done">> >>

\* Body of consumer().
Consumer ==
    << <<"sleep", "0.1">>,
       <<"get", "queue">>, <<"print", "Consumer got 1">>,
       <<"get", "queue">>, <<"print", "Consumer got 2">> >>

\* Body of example_four.
ExampleFour ==
    << <<"start", "consumer">>,
       <<"put", "in_queue">>, <<"print", "Producer waiting">>,
       <<"join", "in_queue">>, <<"print", "Producer done">> >>

\* Body of consumer_four().
ConsumerFour ==
    << <<"print", "Consumer waiting">>,
       <<"get", "in_queue">>, <<"print", "Consumer Working">>,
       <<"print", "Consumer done">>,
       <<"task_done", "in_queue">> >>

\* Mutant: resize_queue is closed before download_queue has been joined.
ExampleFive_CloseBeforeJoin(k) ==
    << <<"start", "download">>, <<"start", "resize">>, <<"start", "upload">> >>
    \o Repeat(k, <<"put", "download_queue">>)
    \o << <<"close", "download_queue">>,
          <<"close", "resize_queue">>,
          <<"join", "download_queue">>,
          <<"close", "resize_queue">>,
          <<"join", "resize_queue">>,
          <<"close", "upload_queue">>,
          <<"join", "upload_queue">>,
          <<"print", "items finished">> >>

\* Mutant: download_queue is closed before the items are fed.
ExampleFive_CloseFirst(k) ==
    << <<"start", "download">>, <<"start", "resize">>, <<"start", "upload">>,
       <<"close", "download_queue">> >>
    \o Repeat(k, <<"put", "download_queue">>)
    \o << <<"join", "download_queue">>,
          <<"close", "resize_queue">>,
          <<"close", "resize_queue">>,
          <<"join", "resize_queue">>,
          <<"close", "upload_queue">>,
          <<"join", "upload_queue">>,
          <<"print", "items finished">> >>

\* Body of example_five feeding k items.
ExampleFive(k) ==
    << <<"start", "download">>, <<"start", "resize">>, <<"start", "upload">> >>
    \o Repeat(k, <<"put", "download_queue">>)
    \o << <<"close", "download_queue">>,
          <<"join", "download_queue">>,
          <<"close", "resize_queue">>,
          <<"close", "resize_queue">>,
          <<"join", "resize_queue">>,
          <<"close", "upload_queue">>,
          <<"join", "upload_queue">>,
          <<"print", "items finished">> >>

Script(t) ==
    CASE t = "main" /\ example = "one"       -> ExampleOne(n)
      [] t = "main" /\ example = "three"     -> ExampleThree
      [] t = "main" /\ example = "four"      -> ExampleFour
      [] t = "main" /\ example = "five"      -> ExampleFive(n)
      [] t = "consumer" /\ example = "three" -> Consumer
      [] t = "consumer" /\ example = "four"  -> ConsumerFour
      [] OTHER                               -> << >>

Finished(t) == pc[t] > Len(Script(t))

\* Thread t is at a statement with operation op.
At(t, op) == t \in started /\ ~Finished(t) /\ Script(t)[pc[t]][1] = op

Arg(t) == Script(t)[pc[t]][2]

Advance(t) == pc' = [pc EXCEPT ![t] = @ + 1]

\* Statements of the main thread that have completed.
Past == 1..(pc["main"] - 1)

\* Number of completed q.close() calls.
CloseCount(q) ==
    Cardinality({i \in Past : Script("main")[i] = <<"close", q>>})

Closed(q) == CloseCount(q) > 0

\* q.join() has returned.
JoinReturned(q) == \E i \in Past : Script("main")[i] = <<"join", q>>

Range(s) == {s[i] : i \in 1..Len(s)}

----------------------------------------------------------------------------
\* queue.Queue operations.

\* Queue.put does not wait iff maxsize <= 0 or qsize() < maxsize.
CanPut(q) == MaxSize(q) = 0 \/ Len(buf[q]) < MaxSize(q)

\* Mutant: put inserts at the head of the deque.
QPut_AppendLeft(q, x) ==
    /\ CanPut(q)
    /\ buf' = [buf EXCEPT ![q] = <<x>> \o @]
    /\ unfinished' = [unfinished EXCEPT ![q] = @ + 1]
    /\ puts' = [puts EXCEPT ![q] = Append(@, x)]

QPut(q, x) ==
    /\ CanPut(q)
    /\ buf' = [buf EXCEPT ![q] = Append(@, x)]
    /\ unfinished' = [unfinished EXCEPT ![q] = @ + 1]
    /\ puts' = [puts EXCEPT ![q] = Append(@, x)]

\* Queue.get waits while the queue is empty; the caller reads Head(buf[q]).
QGet(q) ==
    /\ buf[q] # << >>
    /\ buf' = [buf EXCEPT ![q] = Tail(@)]
    /\ gets' = [gets EXCEPT ![q] = Append(@, Head(buf[q]))]
    /\ UNCHANGED unfinished

QTaskDone(q) ==
    /\ unfinished[q] > 0
    /\ unfinished' = [unfinished EXCEPT ![q] = @ - 1]
    /\ UNCHANGED buf

\* Mutant: join waits until the buffer is empty, not until all is marked done.
CanJoin_Dequeued(q) == buf[q] = << >>

\* Queue.join waits while unfinished_tasks is non-zero.
CanJoin(q) == unfinished[q] = 0

\* Mutant: close() on a queue that was already closed is refused.
QClose_Once(q) ==
IF Closed(q) THEN UNCHANGED <<buf, unfinished, puts>>
                 ELSE QPut(q, SENTINEL)

\* ClosableQueue.close
QClose(q) == QPut(q, SENTINEL)

\* Mutant: the iteration never recognises the sentinel.
IsSentinel_Never(item) == FALSE

\* ClosableQueue.__iter__: the test that ends the iteration.
IsSentinel(item) == item = SENTINEL

\* Mutant: MyQueue.put uses appendleft.
MyPut_AppendLeft(q, x) ==
    /\ items' = [items EXCEPT ![q] = <<x>> \o @]
    /\ puts' = [puts EXCEPT ![q] = Append(@, x)]

\* MyQueue.put: append under the lock; never waits.
MyPut(q, x) ==
    /\ items' = [items EXCEPT ![q] = Append(@, x)]
    /\ puts' = [puts EXCEPT ![q] = Append(@, x)]

\* deque.popleft raises IndexError on an empty deque.
MyEmpty(q) == items[q] = << >>

\* MyQueue.get on a non-empty deque: popleft under the lock; the caller reads
\* Head(items[q]).
MyGet(q) ==
    /\ ~MyEmpty(q)
    /\ items' = [items EXCEPT ![q] = Tail(@)]
    /\ gets' = [gets EXCEPT ![q] = Append(@, Head(items[q]))]

\* Mutant: the wait loop is left one item early.
WaitOver_OffByOne(q) == Len(items[q]) >= n - 1

\* example_one leaves its wait loop: not len(done_queue.items) < N.
WaitOver(q) == Len(items[q]) >= n

\* Polls of worker w that found its input queue empty.
EmptyPolls(w) == polled_count[w] - work_done[w] - Len(pitem[w])

LogOp(q, op) == IF q = "queue" THEN Append(qlog, op) ELSE qlog

----------------------------------------------------------------------------
\* Statements of the scripted threads.

\* thread.start()
Start(t) ==
    /\ At(t, "start")
    /\ started' = started \cup {Arg(t)}
    /\ Advance(t)
    /\ UNCHANGED <<example, n, buf, unfinished, wpc, hand, result, nobj,
                   called, out, qlog>>
    /\ UNCHANGED <<puts, gets, pollVars>>

\* q.put(object())
Put(t) ==
    /\ At(t, "put")
    /\ QPut(Arg(t), nobj + 1)
    /\ nobj' = nobj + 1
    /\ qlog' = LogOp(Arg(t), "put")
    /\ Advance(t)
    /\ UNCHANGED <<example, n, started, wpc, hand, result, called, out>>
    /\ UNCHANGED <<gets, pollVars>>

\* q.get(), the returned item is dropped
Get(t) ==
    /\ At(t, "get")
    /\ QGet(Arg(t))
    /\ qlog' = LogOp(Arg(t), "get")
    /\ Advance(t)
    /\ UNCHANGED <<example, n, started, wpc, hand, result, nobj, called, out>>
    /\ UNCHANGED <<puts, pollVars>>

\* q.task_done()
TaskDone(t) ==
    /\ At(t, "task_done")
    /\ QTaskDone(Arg(t))
    /\ Advance(t)
    /\ UNCHANGED <<example, n, started, wpc, hand, result, nobj, called, out,
                   qlog>>
    /\ UNCHANGED <<puts, gets, pollVars>>

\* q.close()
Close(t) ==
    /\ At(t, "close")
    /\ QClose(Arg(t))
    /\ Advance(t)
    /\ UNCHANGED <<example, n, started, wpc, hand, result, nobj, called, out,
                   qlog>>
    /\ UNCHANGED <<gets, pollVars>>

\* q.join()
Join(t) ==
    /\ At(t, "join")
    /\ CanJoin(Arg(t))
    /\ Advance(t)
    /\ UNCHANGED <<example, n, started, buf, unfinished, wpc, hand, result,
                   nobj, called, out, qlog>>
    /\ UNCHANGED <<puts, gets, pollVars>>

\* thread.join()
ThreadJoin(t) ==
    /\ At(t, "tjoin")
    /\ Finished(Arg(t))
    /\ Advance(t)
    /\ UNCHANGED <<example, n, started, buf, unfinished, wpc, hand, result,
                   nobj, called, out, qlog>>
    /\ UNCHANGED <<puts, gets, pollVars>>

\* print(...)
PrintLine(t) ==
    /\ At(t, "print")
    /\ out' = Append(out, Arg(t))
    /\ Advance(t)
    /\ UNCHANGED <<example, n, started, buf, unfinished, wpc, hand, result,
                   nobj, called, qlog>>
    /\ UNCHANGED <<puts, gets, pollVars>>

\* time.sleep(...)
Sleep(t) ==
    /\ At(t, "sleep")
    /\ Advance(t)
    /\ UNCHANGED <<example, n, started, buf, unfinished, wpc, hand, result,
                   nobj, called, out, qlog>>
    /\ UNCHANGED <<puts, gets, pollVars>>

\* download_queue.put(object()) on a MyQueue
MyQueuePut(t) ==
    /\ At(t, "myput")
    /\ MyPut(Arg(t), nobj + 1)
    /\ nobj' = nobj + 1
    /\ Advance(t)
    /\ UNCHANGED <<example, n, started, buf, unfinished, wpc, hand, result,
                   called, out, qlog, gets>>
    /\ UNCHANGED <<polled_count, work_done, ppc, pitem, processed, polled>>

\* while len(done_queue.items) < N: time.sleep(0.1) -- the loop is left
WaitDone(t) ==
    /\ At(t, "wait")
    /\ WaitOver(Arg(t))
    /\ Advance(t)
    /\ UNCHANGED <<example, n, started, buf, unfinished, wpc, hand, result,
                   nobj, called, out, qlog, puts, gets, pollVars>>

\* processed = len(done_queue.items)
ReadLen(t) ==
    /\ At(t, "len")
    /\ processed' = << Len(items[Arg(t)]) >>
    /\ Advance(t)
    /\ UNCHANGED <<example, n, started, buf, unfinished, wpc, hand, result,
                   nobj, called, out, qlog, puts, gets>>
    /\ UNCHANGED <<items, polled_count, work_done, ppc, pitem, polled>>

\* polled = sum(t.polled_count for t in threads): one thread's counter is
\* read per step.
ReadPolled(t) ==
    /\ At(t, "polled")
    /\ polled' = polled + polled_count[Arg(t)]
    /\ Advance(t)
    /\ UNCHANGED <<example, n, started, buf, unfinished, wpc, hand, result,
                   nobj, called, out, qlog, puts, gets>>
    /\ UNCHANGED <<items, polled_count, work_done, ppc, pitem, processed>>

----------------------------------------------------------------------------
\* Worker.run, the polling worker of example_one.

\* Mutant: an empty poll is counted as work done.
PollEmpty_CountsWork(w) ==
    /\ example = "one"
    /\ w \in started
    /\ ppc[w] = "poll"
    /\ MyEmpty(InQueue(w))
    /\ EmptyPolls(w) < MaxPolls
    /\ polled_count' = [polled_count EXCEPT ![w] = @ + 2]
    /\ work_done' = [work_done EXCEPT ![w] = @ + 1]
    /\ UNCHANGED <<example, n, pc, started, buf, unfinished, wpc, hand, result,
                   nobj, called, out, qlog, puts, gets>>
    /\ UNCHANGED <<items, ppc, pitem, processed, polled>>

\* Mutant: the worker leaves its loop when it finds the queue empty.
PollEmpty_Exit(w) ==
    /\ example = "one"
    /\ w \in started
    /\ ppc[w] = "poll"
    /\ MyEmpty(InQueue(w))
    /\ EmptyPolls(w) < MaxPolls
    /\ polled_count' = [polled_count EXCEPT ![w] = @ + 1]
    /\ ppc' = [ppc EXCEPT ![w] = "exit"]
    /\ UNCHANGED <<example, n, pc, started, buf, unfinished, wpc, hand, result,
                   nobj, called, out, qlog, puts, gets>>
    /\ UNCHANGED <<items, work_done, pitem, processed, polled>>

\* polled_count += 1; self.in_queue.get() raises IndexError; time.sleep(0.01)
PollEmpty(w) ==
    /\ example = "one"
    /\ w \in started
    /\ ppc[w] = "poll"
    /\ MyEmpty(InQueue(w))
    /\ EmptyPolls(w) < MaxPolls
    /\ polled_count' = [polled_count EXCEPT ![w] = @ + 1]
    /\ UNCHANGED <<example, n, pc, started, buf, unfinished, wpc, hand, result,
                   nobj, called, out, qlog, puts, gets>>
    /\ UNCHANGED <<items, work_done, ppc, pitem, processed, polled>>

\* polled_count += 1; item = self.in_queue.get()
PollGet(w) ==
    /\ example = "one"
    /\ w \in started
    /\ ppc[w] = "poll"
    /\ MyGet(InQueue(w))
    /\ polled_count' = [polled_count EXCEPT ![w] = @ + 1]
    /\ pitem' = [pitem EXCEPT ![w] = << Head(items[InQueue(w)]) >>]
    /\ ppc' = [ppc EXCEPT ![w] = "work"]
    /\ UNCHANGED <<example, n, pc, started, buf, unfinished, wpc, hand, result,
                   nobj, called, out, qlog, puts>>
    /\ UNCHANGED <<work_done, processed, polled>>

\* result = self.func(item); self.out_queue.put(result); work_done += 1
PollWork(w) ==
    /\ ppc[w] = "work"
    /\ called' = called \cup {<<w, pitem[w][1]>>}
    /\ MyPut(OutQueue(w), Func(w, pitem[w][1]))
    /\ work_done' = [work_done EXCEPT ![w] = @ + 1]
    /\ pitem' = [pitem EXCEPT ![w] = << >>]
    /\ ppc' = [ppc EXCEPT ![w] = "poll"]
    /\ UNCHANGED <<example, n, pc, started, buf, unfinished, wpc, hand, result,
                   nobj, out, qlog, gets>>
    /\ UNCHANGED <<polled_count, processed, polled>>

----------------------------------------------------------------------------
\* StoppableWorker.run driving ClosableQueue.__iter__.

\* item = self.get()
WorkerGet(w) ==
    /\ w \in started
    /\ wpc[w] = "get"
    /\ QGet(InQueue(w))
    /\ hand' = [hand EXCEPT ![w] = << Head(buf[InQueue(w)]) >>]
    /\ wpc' = [wpc EXCEPT ![w] = "got"]
    /\ UNCHANGED <<example, n, pc, started, result, nobj, called, out, qlog>>
    /\ UNCHANGED <<puts, pollVars>>

\* Mutant: the sentinel is marked done but the iteration goes on.
WorkerStop_Continue(w) ==
    /\ wpc[w] = "got"
    /\ IsSentinel(hand[w][1])
    /\ QTaskDone(InQueue(w))
    /\ hand' = [hand EXCEPT ![w] = << >>]
    /\ wpc' = [wpc EXCEPT ![w] = "get"]
    /\ UNCHANGED <<example, n, pc, started, result, nobj, called, out, qlog>>
    /\ UNCHANGED <<puts, gets, pollVars>>

\* if item is self.SENTINEL: return -- the finally clause marks the sentinel
\* done, the generator ends and run() returns.
WorkerStop(w) ==
    /\ wpc[w] = "got"
    /\ IsSentinel(hand[w][1])
    /\ QTaskDone(InQueue(w))
    /\ hand' = [hand EXCEPT ![w] = << >>]
    /\ wpc' = [wpc EXCEPT ![w] = "exit"]
    /\ UNCHANGED <<example, n, pc, started, result, nobj, called, out, qlog>>
    /\ UNCHANGED <<puts, gets, pollVars>>

\* Mutant: the item is marked done before its result is forwarded.
WorkerCall_DoneFirst(w) ==
    /\ wpc[w] = "got"
    /\ ~IsSentinel(hand[w][1])
    /\ called' = called \cup {<<w, hand[w][1]>>}
    /\ result' = [result EXCEPT ![w] = << Func(w, hand[w][1]) >>]
    /\ QTaskDone(InQueue(w))
    /\ wpc' = [wpc EXCEPT ![w] = "put"]
    /\ UNCHANGED <<example, n, pc, started, hand, nobj, out, qlog>>
    /\ UNCHANGED <<puts, gets, pollVars>>

\* yield item; result = self.func(item)
WorkerCall(w) ==
    /\ wpc[w] = "got"
    /\ ~IsSentinel(hand[w][1])
    /\ called' = called \cup {<<w, hand[w][1]>>}
    /\ result' = [result EXCEPT ![w] = << Func(w, hand[w][1]) >>]
    /\ wpc' = [wpc EXCEPT ![w] = "put"]
    /\ UNCHANGED <<example, n, pc, started, buf, unfinished, hand, nobj, out,
                   qlog>>
    /\ UNCHANGED <<puts, gets, pollVars>>

\* Mutant: the failing item is not marked done.
WorkerRaise_NoTaskDone(w) ==
    /\ wpc[w] = "got"
    /\ ~IsSentinel(hand[w][1])
    /\ called' = called \cup {<<w, hand[w][1]>>}
    /\ hand' = [hand EXCEPT ![w] = << >>]
    /\ wpc' = [wpc EXCEPT ![w] = "crashed"]
    /\ UNCHANGED <<example, n, pc, started, buf, unfinished, result, nobj, out,
                   qlog>>
    /\ UNCHANGED <<puts, gets, pollVars>>

\* yield item; self.func(item) raises: the exception leaves run(), the
\* suspended generator is finalised, its finally clause marks the item done,
\* and the thread ends.  (The transforms of the source never raise; this step
\* belongs to FailSpec only.)
WorkerRaise(w) ==
    /\ wpc[w] = "got"
    /\ ~IsSentinel(hand[w][1])
    /\ called' = called \cup {<<w, hand[w][1]>>}
    /\ QTaskDone(InQueue(w))
    /\ hand' = [hand EXCEPT ![w] = << >>]
    /\ wpc' = [wpc EXCEPT ![w] = "crashed"]
    /\ UNCHANGED <<example, n, pc, started, result, nobj, out, qlog>>
    /\ UNCHANGED <<puts, gets, pollVars>>

\* self.out_queue.put(result)
WorkerPut(w) ==
    /\ wpc[w] = "put"
    /\ QPut(OutQueue(w), result[w][1])
    /\ result' = [result EXCEPT ![w] = << >>]
    /\ wpc' = [wpc EXCEPT ![w] = "resume"]
    /\ UNCHANGED <<example, n, pc, started, hand, nobj, called, out, qlog>>
    /\ UNCHANGED <<gets, pollVars>>

\* Mutant: a data item is not marked done when the generator is resumed.
WorkerTaskDone_Skip(w) ==
    /\ wpc[w] = "resume"
    /\ hand' = [hand EXCEPT ![w] = << >>]
    /\ wpc' = [wpc EXCEPT ![w] = "get"]
    /\ UNCHANGED <<example, n, pc, started, buf, unfinished, result, nobj,
                   called, out, qlog>>
    /\ UNCHANGED <<puts, gets, pollVars>>

\* Mutant: the worker leaves run() after its first item.
WorkerTaskDone_Exit(w) ==
    /\ wpc[w] = "resume"
    /\ QTaskDone(InQueue(w))
    /\ hand' = [hand EXCEPT ![w] = << >>]
    /\ wpc' = [wpc EXCEPT ![w] = "exit"]
    /\ UNCHANGED <<example, n, pc, started, result, nobj, called, out, qlog>>
    /\ UNCHANGED <<puts, gets, pollVars>>

\* The generator is resumed after the yield: finally: self.task_done(), then
\* the loop goes back to self.get().
WorkerTaskDone(w) ==
    /\ wpc[w] = "resume"
    /\ QTaskDone(InQueue(w))
    /\ hand' = [hand EXCEPT ![w] = << >>]
    /\ wpc' = [wpc EXCEPT ![w] = "get"]
    /\ UNCHANGED <<example, n, pc, started, result, nobj, called, out, qlog>>
    /\ UNCHANGED <<puts, gets, pollVars>>

----------------------------------------------------------------------------

Init ==
    /\ example \in Examples
    /\ n \in IF example \in {"one", "five"} THEN 1..MaxItems ELSE {0}
    /\ pc = [t \in Scripted |-> 1]
    /\ started = {"main"}
    /\ buf = [q \in Queues |-> << >>]
    /\ unfinished = [q \in Queues |-> 0]
    /\ wpc = [w \in Workers |-> "get"]
    /\ hand = [w \in Workers |-> << >>]
    /\ result = [w \in Workers |-> << >>]
    /\ nobj = 0
    /\ called = {}
    /\ out = << >>
    /\ qlog = << >>
    /\ puts = [q \in Queues |-> << >>]
    /\ gets = [q \in Queues |-> << >>]
    /\ items = [q \in MyQueues |-> << >>]
    /\ polled_count = [w \in PollWorkers |-> 0]
    /\ work_done = [w \in PollWorkers |-> 0]
    /\ ppc = [w \in PollWorkers |-> "poll"]
    /\ pitem = [w \in PollWorkers |-> << >>]
    /\ processed = << >>
    /\ polled = 0

ScriptStep(t) ==
    \/ Start(t)
    \/ Put(t)
    \/ Get(t)
    \/ TaskDone(t)
    \/ Close(t)
    \/ Join(t)
    \/ ThreadJoin(t)
    \/ PrintLine(t)
    \/ Sleep(t)
    \/ MyQueuePut(t)
    \/ WaitDone(t)
    \/ ReadLen(t)
    \/ ReadPolled(t)

PollStep(w) ==
    \/ PollEmpty(w)
    \/ PollGet(w)
    \/ PollWork(w)

WorkerStep(w) ==
    \/ WorkerGet(w)
    \/ WorkerStop(w)
    \/ WorkerCall(w)
    \/ WorkerPut(w)
    \/ WorkerTaskDone(w)

Next ==
    \/ \E t \in Scripted : ScriptStep(t)
    \/ \E w \in Workers : WorkerStep(w)
    \/ \E w \in PollWorkers : PollStep(w)

Spec == Init /\ [][Next]_vars

\* Every started thread is an operating-system thread and keeps being
\* scheduled.
FairSpec ==
    /\ Spec
    /\ \A t \in Scripted : WF_vars(ScriptStep(t))
    /\ \A w \in Workers : WF_vars(WorkerStep(w))
    /\ \A w \in PollWorkers : WF_vars(PollStep(w))

\* The same program with transforms that may raise.
NextFail ==
    \/ Next
    \/ \E w \in Workers : WorkerRaise(w)

FailSpec == Init /\ [][NextFail]_vars

TypeOK ==
    /\ example \in Examples
    /\ n \in 0..MaxItems
    /\ \A q \in Queues : unfinished[q] \in Nat
    /\ \A w \in Workers : wpc[w] \in {"get", "got", "put", "resume", "exit", "crashed"}
    /\ \A w \in PollWorkers : ppc[w] \in {"poll", "work"}

----------------------------------------------------------------------------
\* Properties of the sentinel pipeline (example_five).

\* The shutdown sequence of example_five has run to its end.
ShutdownDone == example = "five" /\ Finished("main")

\* done_queue holds each of the n fed items exactly once and nothing else.
TailHoldsAll ==
    /\ Len(buf["done_queue"]) = n
    /\ Range(buf["done_queue"]) = 1..n

\* C1: conservation -- for every number n of fed items the shutdown sequence
\* of example_five runs to its end, and done_queue then holds exactly the n
\* fed items, each once.  (Under FairSpec.)
C1_Conservation == <>(example # "five" \/ (ShutdownDone /\ TailHoldsAll))

\* C2: graceful shutdown terminates -- under fair scheduling example_five
\* returns from its last join() and all three workers have exited by then.
C2_ShutdownTerminates ==
    <>(example # "five" \/ (ShutdownDone /\ \A w \in Workers : wpc[w] = "exit"))

\* Stage w's input queue is drained: nothing buffered, nothing unfinished and
\* the worker has consumed its sentinel and left run().
Drained(w) ==
    /\ buf[InQueue(w)] = << >>
    /\ unfinished[InQueue(w)] = 0
    /\ wpc[w] = "exit"

\* The main thread completes a close() of queue q in this step.
MainCloses(q) ==
    /\ At("main", "close")
    /\ Arg("main") = q
    /\ pc'["main"] = pc["main"] + 1

\* C3: shutdown ordering -- every step in which the main thread closes the
\* output queue of a stage (the input queue of the next stage) starts in a
\* state where that stage's input queue is drained.
C3_ShutdownOrder ==
    [][\A w \in Workers : MainCloses(OutQueue(w)) => Drained(w)]_vars

C3_Witness ==
    /\ example = "five"
    /\ Closed("resize_queue")
    /\ Drained("download")

\* C4: sentinel exclusivity -- no transform was ever called with SENTINEL, no
\* worker holds SENTINEL as a result to forward, done_queue never contains
\* SENTINEL, and a queue contains SENTINEL only if close() was called on it.
C4_SentinelExclusive ==
    /\ \A c \in called : c[2] # SENTINEL
    /\ \A w \in Workers : result[w] # << >> => result[w][1] # SENTINEL
    /\ SENTINEL \notin Range(buf["done_queue"])
    /\ \A q \in ClosableQueues : SENTINEL \in Range(buf[q]) => Closed(q)

C4_Witness ==
    /\ example = "five"
    /\ wpc["download"] = "exit"
    /\ wpc["resize"] = "exit"
    /\ called # {}
    /\ TailHoldsAll

\* C5: double close -- once close() has been called twice on resize_queue,
\* its buffer always ends with a sentinel, its unfinished-task count stays
\* above zero, join() on it has not returned, and when its single consumer
\* has exited exactly the second sentinel is left, unfinished.
C5_DoubleClose ==
    CloseCount("resize_queue") = 2 =>
        /\ buf["resize_queue"] # << >>
        /\ buf["resize_queue"][Len(buf["resize_queue"])] = SENTINEL
        /\ unfinished["resize_queue"] >= 1
        /\ ~JoinReturned("resize_queue")
        /\ wpc["resize"] = "exit" =>
              /\ buf["resize_queue"] = <<SENTINEL>>
              /\ unfinished["resize_queue"] = 1

C5_Witness ==
    /\ CloseCount("resize_queue") = 2
    /\ wpc["resize"] = "exit"
    /\ buf["resize_queue"] = <<SENTINEL>>
    /\ At("main", "join")

----------------------------------------------------------------------------
\* Properties of the blocking queues.

IsPrefix(s, t) == Len(s) <= Len(t) /\ \A i \in 1..Len(s) : s[i] = t[i]

\* C6: backpressure -- the buffer of `queue` (Queue(1)) never holds more than
\* one item, and in example_three the operations on it complete in the order
\* put, get, put, get: the second put waits for the first get.
C6_Backpressure ==
    /\ Len(buf["queue"]) <= 1
    /\ IsPrefix(qlog, <<"put", "get", "put", "get">>)
    /\ (At("main", "put") /\ buf["queue"] # << >>) => ~ENABLED Put("main")

C6_Witness ==
    /\ example = "three"
    /\ qlog = <<"put", "get", "put", "get">>

\* C7 as claimed: every queue of example_five holds at most one buffered
\* entry.
C7_CapacityOne ==
    example = "five" => \A q \in ClosableQueues : Len(buf[q]) <= 1

\* C7 (amended): the queues of example_five are unbounded -- a buffer holds
\* at most the n items plus the sentinels put into it, and whenever the
\* external producer is at a put() that put() can complete at once, whatever
\* the length of the head queue.
C7_Unbounded ==
    example = "five" =>
        /\ \A q \in ClosableQueues : Len(buf[q]) <= n + CloseCount(q)
        /\ At("main", "put") => ENABLED Put("main")

C7_Witness ==
    /\ example = "five"
    /\ At("main", "put")
    /\ Len(buf["download_queue"]) >= 2

C9_JoinWaits ==
    /\ [][\A t \in Scripted :
            (At(t, "join") /\ pc'[t] = pc[t] + 1) => unfinished[Arg(t)] = 0]_vars
    /\ [](\A t \in Scripted :
            (At(t, "join") /\ unfinished[Arg(t)] > 0) => ~ENABLED Join(t))
    /\ []((example = "four" /\ JoinReturned("in_queue")) => Finished("consumer"))

C9_Witness ==
    /\ example = "four"
    /\ JoinReturned("in_queue")
    /\ Finished("consumer")

\* C10: mark-done accounting -- for the input queue of every worker the
\* unfinished-task count equals the number of buffered entries plus one if
\* the worker holds a dequeued entry it has not yet marked done; the count is
\* never negative.
C10_MarkDone ==
    \A w \in Workers :
        /\ unfinished[InQueue(w)] = Len(buf[InQueue(w)]) + Len(hand[w])
        /\ unfinished[InQueue(w)] >= 0

C10_Witness ==
    /\ example = "five"
    /\ wpc["download"] = "exit"
    /\ nobj = n
    /\ unfinished["download_queue"] = 0

----------------------------------------------------------------------------
\* Order, lifecycle and the polling variant.

\* The data items of a sequence of queue entries.
Data(s) == SelectSeq(s, LAMBDA x : x # SENTINEL)

\* C11: end-to-end order -- in example_five the entries of done_queue are, in
\* order, the first items the producer put into download_queue.
C11_EndToEndOrder ==
    example = "five" =>
        /\ buf["done_queue"] = puts["done_queue"]
        /\ IsPrefix(puts["done_queue"], puts["download_queue"])

C11_Witness ==
    /\ example = "five"
    /\ n >= 2
    /\ Len(buf["done_queue"]) = n

\* C12: FIFO per queue -- for every queue, polling or blocking, the entries
\* returned by get() so far are, in order, the first entries that were put.
C12_Fifo == \A q \in Queues : IsPrefix(gets[q], puts[q])

C12_Witness ==
    /\ example = "one"
    /\ Len(gets["download_queue"]) >= 2
    /\ Len(gets["done_queue"]) = 0
    /\ Len(gets["upload_queue"]) >= 2

\* C13: the polling queue never blocks -- a MyQueue.put() can always complete,
\* a polling worker at the top of its loop can always take its next poll
\* (within the modelled number of empty polls), and a poll that finds the
\* input queue empty raises polled_count by one and changes nothing else: no
\* buffer, no transform call, no put, no work_done.
C13_PollNeverBlocks ==
    /\ [](\A t \in Scripted : At(t, "myput") => ENABLED MyQueuePut(t))
    /\ [](\A w \in PollWorkers :
            (example = "one" /\ w \in started /\ ppc[w] = "poll"
                /\ EmptyPolls(w) < MaxPolls) => ENABLED PollStep(w))
    /\ [][\A w \in PollWorkers :
            (polled_count'[w] # polled_count[w] /\ MyEmpty(InQueue(w))) =>
                /\ polled_count'[w] = polled_count[w] + 1
                /\ items' = items
                /\ called' = called
                /\ puts' = puts
                /\ gets' = gets
                /\ work_done' = work_done
                /\ ppc' = ppc]_vars

C13_Witness ==
    /\ example = "one"
    /\ EmptyPolls("upload") >= 1
    /\ Len(items["download_queue"]) >= 2

\* The driver of example_one has left its wait loop.
WaitLeft ==
    /\ example = "one"
    /\ \E i \in Past : Script("main")[i][1] = "wait"

\* C14: the polling pipeline makes progress -- under fair scheduling the
\* driver of example_one eventually finishes; once it has left its wait loop
\* done_queue holds each of the n items exactly once, and it finishes with
\* processed = n and a total polled count above zero.  (Under FairSpec.)
C14_PollingProgress ==
    /\ <>(example # "one" \/ Finished("main"))
    /\ [](WaitLeft =>
            /\ Len(items["done_queue"]) = n
            /\ Range(items["done_queue"]) = 1..n)
    /\ []((example = "one" /\ Finished("main")) =>
            /\ processed = <<n>>
            /\ polled > 0)

C14_Witness ==
    /\ example = "one"
    /\ Finished("main")
    /\ processed = <<n>>
    /\ n >= 2

\* C15: no data behind the sentinel -- in the history of puts of every queue
\* of example_five nothing but sentinels follows a sentinel, and when a queue
\* has been closed all n items have already been put into it.
C15_NoDataBehindSentinel ==
    example = "five" =>
        \A q \in ClosableQueues :
            /\ \A i, j \in 1..Len(puts[q]) :
                  (i < j /\ puts[q][i] = SENTINEL) => puts[q][j] = SENTINEL
            /\ Closed(q) => Data(puts[q]) = [i \in 1..n |-> i]

C15_Witness ==
    /\ example = "five"
    /\ n >= 2
    /\ CloseCount("resize_queue") = 2
    /\ Len(puts["resize_queue"]) = n + 2

\* C16: mark-done follows forwarding -- a StoppableWorker about to mark a
\* data item done has already put its result; every data item it has marked
\* done has its result in the output queue's history; hence when an input
\* queue's unfinished-task count is zero the results of all items put into it
\* have been put into the output queue.
C16_DoneAfterForward ==
    example = "five" =>
        \A w \in Workers :
            /\ wpc[w] = "resume" =>
                  /\ result[w] = << >>
                  /\ Func(w, hand[w][1]) \in Range(puts[OutQueue(w)])
            /\ \A x \in Range(Data(gets[InQueue(w)])) \ Range(hand[w]) :
                  Func(w, x) \in Range(puts[OutQueue(w)])
            /\ unfinished[InQueue(w)] = 0 =>
                  \A x \in Range(Data(puts[InQueue(w)])) :
                      Func(w, x) \in Range(puts[OutQueue(w)])

C16_Witness ==
    /\ example = "five"
    /\ n >= 2
    /\ unfinished["download_queue"] = 0
    /\ Len(puts["download_queue"]) = n + 1

\* Number of sentinels worker w has dequeued.
SentinelsGot(w) ==
    Len(gets[InQueue(w)]) - Len(Data(gets[InQueue(w)]))

\* C17: worker lifecycle -- a StoppableWorker has left run() exactly when it
\* has dequeued a sentinel and marked it done; it dequeues at most one
\* sentinel; once terminated it stays terminated, gets nothing more and puts
\* no further result; a worker whose input queue has not been closed has not
\* terminated.
C17_Lifecycle ==
    /\ [](\A w \in Workers :
            /\ wpc[w] = "exit" <=> (SentinelsGot(w) = 1 /\ hand[w] = << >>)
            /\ SentinelsGot(w) <= 1
            /\ ~Closed(InQueue(w)) => wpc[w] # "exit")
    /\ [][\A w \in Workers :
            wpc[w] = "exit" =>
                /\ wpc'[w] = "exit"
                /\ gets'[InQueue(w)] = gets[InQueue(w)]
                /\ Data(puts'[OutQueue(w)]) = Data(puts[OutQueue(w)])]_vars

C17_Witness ==
    /\ example = "five"
    /\ wpc["download"] = "exit"
    /\ wpc["resize"] = "exit"
    /\ wpc["upload"] = "get"
    /\ Len(buf["done_queue"]) = n

\* C18: transform failure is fatal and unrecovered -- the step in which a
\* transform raises marks the failing item done, puts nothing and ends the
\* worker; afterwards the worker stays ended, gets and puts nothing more, the
\* entries buffered in its input queue are all unfinished and stay so, and a
\* join() on that input queue has not returned once the queue is closed.
\* (Under FailSpec.)
C18_FailureFatal ==
    /\ [](\A w \in Workers :
            wpc[w] = "crashed" =>
                /\ hand[w] = << >>
                /\ result[w] = << >>
                /\ unfinished[InQueue(w)] = Len(buf[InQueue(w)])
                /\ Func(w, gets[InQueue(w)][Len(gets[InQueue(w)])])
                      \notin Range(puts[OutQueue(w)])
                /\ Closed(InQueue(w)) =>
                      /\ unfinished[InQueue(w)] > 0
                      /\ ~JoinReturned(InQueue(w)))
    /\ [][\A w \in Workers :
            (wpc[w] # "crashed" /\ wpc'[w] = "crashed") =>
                /\ wpc[w] = "got"
                /\ unfinished'[InQueue(w)] = unfinished[InQueue(w)] - 1
                /\ buf' = buf
                /\ puts' = puts]_vars
    /\ [][\A w \in Workers :
            wpc[w] = "crashed" =>
                /\ wpc'[w] = "crashed"
                /\ gets'[InQueue(w)] = gets[InQueue(w)]
                /\ Data(puts'[OutQueue(w)]) = Data(puts[OutQueue(w)])
                /\ unfinished'[InQueue(w)] >= unfinished[InQueue(w)]
                /\ Len(buf'[InQueue(w)]) >= Len(buf[InQueue(w)])]_vars

C18_Witness ==
    /\ example = "five"
    /\ wpc["download"] = "crashed"
    /\ Closed("download_queue")
    /\ At("main", "join")
    /\ Len(buf["download_queue"]) >= 2

\* C19: output order of example_four -- the lines printed so far are always
\* the first lines of the docstring's listing.
C19_OutputOrder ==
    example = "four" =>
        IsPrefix(out, <<"Consumer waiting", "Producer waiting",
                        "Consumer Working", "Consumer done", "Producer done">>)

====
